---------------------------- MODULE Spec2Model ----------------------------
(***************************************************************************)
(* voice_bridge.py: the bridge between the RT-STT client and a parent      *)
(* process that reads JSON lines from the bridge's standard output.        *)
(*                                                                         *)
(* The main thread runs main() (lines 25-88).  Signal handlers run on the  *)
(* main thread, between two of its steps, as nested activations of         *)
(* cleanup() (lines 14-23).  The client library delivers transcription and *)
(* error events on threads of its own by calling the two registered        *)
(* callbacks (lines 47-61).  All of them write to one unbuffered raw       *)
(* stream (lines 33-34) without any lock.                                  *)
(***************************************************************************)
EXTENDS Integers, Sequences, FiniteSets, TLC

(* ----------------------------- bounds ---------------------------------- *)

\* Signals (SIGINT / SIGTERM) the environment delivers in one execution.
MaxSignals == 1

\* Events the client delivers to the callbacks in one execution.
MaxEvents == 2

(* --------------------------- environment ------------------------------- *)

\* The client library's delivery threads.
Threads == {1, 2}

\* Stands for a dictated text of 5000 ASCII characters.
LongText == "<text of 5000 characters>"

\* len(s.encode('utf-8')) of the strings the model uses (all ASCII, none
\* needing a JSON escape).
StrLen(s) == IF s = LongText THEN 5000 ELSE Len(s)

\* POSIX PIPE_BUF on Linux: a write(2) of more bytes to a pipe is not atomic
\* with respect to other writers.  sys.stdout is a raw FileIO (line 34), so
\* every sys.stdout.write() is exactly one write(2) of the whole line.
PipeBuf == 4096

\* str(e) of the exception each client operation may raise.
ExcOf(op) == op \o " failed"

\* The transcription results the client may deliver: language and is_final
\* are optional, and a partial event may lack text or confidence.  A float
\* is represented by its repr(), which is what json.dumps writes.
Results ==
    {[text |-> "hello world", confidence |-> "0.92", language |-> "sv"],
     [text |-> LongText, confidence |-> "0.5", is_final |-> FALSE],
     [confidence |-> "0.92", language |-> "sv"],
     [text |-> "hello world", is_final |-> FALSE]}

\* The errors the client may deliver to the error callback, by their str().
Errors == {"stream timeout"}

\* The exit status of a process that has not exited.
NoExit == -1

(* ------------------------------ state ---------------------------------- *)

VARIABLES
    pc,         \* the main thread's place in main()
    frames,     \* the activations of cleanup() on the main thread's stack,
                \* innermost last: each at "check", "stop", "disc" or "exit"
    client,     \* the global `client`: "None" or "obj"
    exc,        \* str(e) of the exception main()'s except clause caught
    exitCode,   \* the process's exit status, NoExit while it runs
    out,        \* the bytes written to stdout, as slices of lines
    calls,      \* the calls made on the client, in order, with their outcome
    regs,       \* the callbacks registered with the client
    cb,         \* each delivery thread's place in a callback
    escaped,    \* exceptions that left a callback to the client
    nEvents,    \* events delivered so far
    sigLog      \* the signals delivered so far: where each found the main
                \* thread, a place of main() or "cleanup"

vars == <<pc, frames, client, exc, exitCode, out, calls, regs, cb, escaped,
          nEvents, sigLog>>

(* ------------------------------ output --------------------------------- *)

\* len((json.dumps(m) + "\n").encode('utf-8')): json.dumps separates with
\* ", " and ": ".
ByteLen(m) ==
    CASE m.type = "ready" -> 32 + StrLen(m.status)
      [] m.type = "error" -> 31 + StrLen(m.error)
      [] m.type = "transcription" ->
            84 + StrLen(m.text) + StrLen(m.confidence) + StrLen(m.language)
               + (IF m.is_final THEN 4 ELSE 5)

\* Bytes from..to of the line json.dumps(m) + "\n".
Slice(m, from, to) == [msg |-> m, from |-> from, to |-> to]

WholeLine(m) == Slice(m, 1, ByteLen(m))

IsWhole(s) == s.from = 1 /\ s.to = ByteLen(s.msg)

\* A variant of TranscriptionMsg with the two defaults of lines 52-53
\* confused: a missing is_final becomes false.
TranscriptionMsgWrongDefault(result) ==
    [type |-> "transcription",
     text |-> result.text,
     confidence |-> result.confidence,
     language |-> IF "language" \in DOMAIN result THEN result.language
                  ELSE "en",
     is_final |-> IF "is_final" \in DOMAIN result THEN result.is_final
                  ELSE FALSE]

\* The dict on_transcription builds (lines 48-54); getattr's third argument
\* is the value taken when the result has no such attribute.
TranscriptionMsg(result) ==
    [type |-> "transcription",
     text |-> result.text,
     confidence |-> result.confidence,
     language |-> IF "language" \in DOMAIN result THEN result.language
                  ELSE "en",
     is_final |-> IF "is_final" \in DOMAIN result THEN result.is_final
                  ELSE TRUE]

\* The dict on_error and main()'s except clause build (lines 59, 85).
ErrorMsg(e) == [type |-> "error", error |-> e]

\* The dicts of lines 42 and 71.
ReadyMsg(status) == [type |-> "ready", status |-> status]

(* ------------------------------ Init ----------------------------------- *)

\* main() has installed both handlers and reopened stdout (lines 29-34) and
\* is about to enter the try block.
Init ==
    /\ pc = "construct"
    /\ frames = <<>>
    /\ client = "None"
    /\ exc = ""
    /\ exitCode = NoExit
    /\ out = <<>>
    /\ calls = <<>>
    /\ regs = {}
    /\ cb = [t \in Threads |-> [pc |-> "idle"]]
    /\ escaped = 0
    /\ nEvents = 0
    /\ sigLog = <<>>

(* --------------------------- main(), lines 36-88 ----------------------- *)

\* The main thread executes main()'s own code: no handler is active.
InMain(at) == pc = at /\ frames = <<>>

\* A call of a client method, as the client sees it.
Called(op, ok) == Append(calls, [op |-> op, ok |-> ok])

\* An exception raised in the try block reaches `except Exception as e`.
Caught(op) == pc' = "h_write" /\ exc' = ExcOf(op)

\* Line 38: client = RTSTTClient().
Construct ==
    /\ InMain("construct")
    /\ \/ client' = "obj" /\ pc' = "connect" /\ exc' = exc
       \/ client' = client /\ Caught("RTSTTClient")
    /\ UNCHANGED <<frames, exitCode, out, calls, regs, cb, escaped, nEvents,
                   sigLog>>

\* Line 39: client.connect().
Connect ==
    /\ InMain("connect")
    /\ \/ calls' = Called("connect", TRUE) /\ pc' = "w_connected"
          /\ exc' = exc
       \/ calls' = Called("connect", FALSE) /\ Caught("connect")
    /\ UNCHANGED <<frames, client, exitCode, out, regs, cb, escaped, nEvents,
                   sigLog>>

\* A variant of WriteConnected that goes on to the registrations without
\* announcing the connection.
WriteConnectedSkipped ==
    /\ InMain("w_connected")
    /\ pc' = "reg_transcription"
    /\ UNCHANGED <<frames, client, exc, exitCode, out, calls, regs, cb,
                   escaped, nEvents, sigLog>>

\* Lines 42-44: the "connected" line.
WriteConnected ==
    /\ InMain("w_connected")
    /\ out' = Append(out, WholeLine(ReadyMsg("connected")))
    /\ pc' = "reg_transcription"
    /\ UNCHANGED <<frames, client, exc, exitCode, calls, regs, cb, escaped,
                   nEvents, sigLog>>

\* Line 64: client.on_transcription(on_transcription).
RegisterTranscription ==
    /\ InMain("reg_transcription")
    /\ calls' = Called("on_transcription", TRUE)
    /\ regs' = regs \cup {"on_transcription"}
    /\ pc' = "reg_error"
    /\ UNCHANGED <<frames, client, exc, exitCode, out, cb, escaped, nEvents,
                   sigLog>>

\* A variant of RegisterError that goes on without binding the error handler.
RegisterErrorSkipped ==
    /\ InMain("reg_error")
    /\ pc' = "subscribe"
    /\ UNCHANGED <<frames, client, exc, exitCode, out, calls, regs, cb,
                   escaped, nEvents, sigLog>>

\* Line 65: client.on_error(on_error).
RegisterError ==
    /\ InMain("reg_error")
    /\ calls' = Called("on_error", TRUE)
    /\ regs' = regs \cup {"on_error"}
    /\ pc' = "subscribe"
    /\ UNCHANGED <<frames, client, exc, exitCode, out, cb, escaped, nEvents,
                   sigLog>>

\* Line 68: client.subscribe().
Subscribe ==
    /\ InMain("subscribe")
    /\ \/ calls' = Called("subscribe", TRUE) /\ pc' = "start_listening"
          /\ exc' = exc
       \/ calls' = Called("subscribe", FALSE) /\ Caught("subscribe")
    /\ UNCHANGED <<frames, client, exitCode, out, regs, cb, escaped, nEvents,
                   sigLog>>

\* A variant of StartListening that swallows the exception and goes on.
StartListeningSwallowed ==
    /\ InMain("start_listening")
    /\ \/ calls' = Called("start_listening", TRUE)
       \/ calls' = Called("start_listening", FALSE)
    /\ pc' = "w_listening"
    /\ UNCHANGED <<frames, client, exc, exitCode, out, regs, cb, escaped,
                   nEvents, sigLog>>

\* Line 69: client.start_listening().
StartListening ==
    /\ InMain("start_listening")
    /\ \/ calls' = Called("start_listening", TRUE)
          /\ pc' = "w_listening" /\ exc' = exc
       \/ calls' = Called("start_listening", FALSE)
          /\ Caught("start_listening")
    /\ UNCHANGED <<frames, client, exitCode, out, regs, cb, escaped, nEvents,
                   sigLog>>

\* Lines 71-73: the "listening" line; then the loop of line 77 is entered
\* and select.select([], [], []) blocks.
WriteListening ==
    /\ InMain("w_listening")
    /\ out' = Append(out, WholeLine(ReadyMsg("listening")))
    /\ pc' = "wait"
    /\ UNCHANGED <<frames, client, exc, exitCode, calls, regs, cb, escaped,
                   nEvents, sigLog>>

\* Lines 81-82 and 77: an exception that left select() was swallowed by the
\* bare except; the loop goes round and select() blocks again.
LoopBack ==
    /\ InMain("loop")
    /\ pc' = "wait"
    /\ UNCHANGED <<frames, client, exc, exitCode, out, calls, regs, cb,
                   escaped, nEvents, sigLog>>

\* A variant of HandlerWrite that reports nothing before it cleans up.
HandlerWriteSilent ==
    /\ InMain("h_write")
    /\ pc' = "h_cleanup"
    /\ UNCHANGED <<frames, client, exc, exitCode, out, calls, regs, cb,
                   escaped, nEvents, sigLog>>

\* Lines 85-87: the except clause writes the error line.
HandlerWrite ==
    /\ InMain("h_write")
    /\ out' = Append(out, WholeLine(ErrorMsg(exc)))
    /\ pc' = "h_cleanup"
    /\ UNCHANGED <<frames, client, exc, exitCode, calls, regs, cb, escaped,
                   nEvents, sigLog>>

\* Line 88: cleanup(None, None), an ordinary call.
HandlerCleanup ==
    /\ InMain("h_cleanup")
    /\ frames' = <<"check">>
    /\ UNCHANGED <<pc, client, exc, exitCode, out, calls, regs, cb, escaped,
                   nEvents, sigLog>>

(* --------------------------- cleanup(), lines 14-23 -------------------- *)

\* The innermost activation of cleanup() is at `at`.
InCleanup(at) ==
    /\ pc # "terminated"
    /\ frames # <<>>
    /\ frames[Len(frames)] = at

SetTop(fs, at) == [fs EXCEPT ![Len(fs)] = at]

Pop(fs) == SubSeq(fs, 1, Len(fs) - 1)

\* Delivery of SIGINT or SIGTERM: the interpreter calls cleanup(signum,
\* frame) on the main thread, on top of whatever it is executing there.
Signal ==
    /\ pc # "terminated"
    /\ Len(sigLog) < MaxSignals
    /\ sigLog' = Append(sigLog, IF frames = <<>> THEN pc ELSE "cleanup")
    /\ frames' = Append(frames, "check")
    /\ UNCHANGED <<pc, client, exc, exitCode, out, calls, regs, cb, escaped,
                   nEvents>>

\* A variant of CleanupCheck without the test of line 17.
CleanupCheckOmitted ==
    /\ InCleanup("check")
    /\ frames' = SetTop(frames, "stop")
    /\ UNCHANGED <<pc, client, exc, exitCode, out, calls, regs, cb, escaped,
                   nEvents, sigLog>>

\* Line 17: if client.
CleanupCheck ==
    /\ InCleanup("check")
    /\ frames' = SetTop(frames, IF client # "None" THEN "stop" ELSE "exit")
    /\ UNCHANGED <<pc, client, exc, exitCode, out, calls, regs, cb, escaped,
                   nEvents, sigLog>>

\* Line 19: client.stop_listening(), inside the try of line 18; if it raises,
\* the bare except of lines 21-22 ends the try statement: line 20 is skipped.
CleanupStopListening ==
    /\ InCleanup("stop")
    /\ \/ calls' = Called("stop_listening", TRUE)
          /\ frames' = SetTop(frames, "disc")
       \/ calls' = Called("stop_listening", FALSE)
          /\ frames' = SetTop(frames, "exit")
    /\ UNCHANGED <<pc, client, exc, exitCode, out, regs, cb, escaped,
                   nEvents, sigLog>>

\* Line 20: client.disconnect(); if it raises, lines 21-22 swallow it.
CleanupDisconnect ==
    /\ InCleanup("disc")
    /\ \/ calls' = Called("disconnect", TRUE)
       \/ calls' = Called("disconnect", FALSE)
    /\ frames' = SetTop(frames, "exit")
    /\ UNCHANGED <<pc, client, exc, exitCode, out, regs, cb, escaped,
                   nEvents, sigLog>>

\* A variant of ExitStatus: a failure status.
ExitStatusFailure == 0 + 1

\* The status sys.exit(0) gives SystemExit (line 23).
ExitStatus == 0

\* A variant of Unwind in which line 84 is a bare except: SystemExit raised
\* during the startup sequence is caught like a startup failure.
RECURSIVE UnwindCaughtAtStartup(_, _)
UnwindCaughtAtStartup(fs, at) ==
    IF fs # <<>>
    THEN IF fs[Len(fs)] \in {"stop", "disc"}
         THEN [frames |-> SetTop(fs, "exit"), pc |-> at, code |-> NoExit]
         ELSE UnwindCaughtAtStartup(Pop(fs), at)
    ELSE IF at = "wait"
         THEN [frames |-> <<>>, pc |-> "loop", code |-> NoExit]
         ELSE IF at \in {"h_write", "h_cleanup", "loop"}
              THEN [frames |-> <<>>, pc |-> "terminated", code |-> 0]
              ELSE [frames |-> <<>>, pc |-> "h_write", code |-> NoExit]

\* Where SystemExit, raised by an activation of cleanup() that has been
\* popped, ends: fs are the activations below it and at is main()'s place.
\*  - an activation inside its try (lines 18-20) swallows it with the bare
\*    except of line 21 and goes on to its own line 23;
\*  - an activation at line 17 or 23 lets it through;
\*  - in main(), select() of line 80 is inside the try whose bare except
\*    (line 81) swallows it; everywhere else only `except Exception` (line
\*    84) is around, which SystemExit passes: the interpreter exits.
RECURSIVE Unwind(_, _)
Unwind(fs, at) ==
    IF fs # <<>>
    THEN IF fs[Len(fs)] \in {"stop", "disc"}
         THEN [frames |-> SetTop(fs, "exit"), pc |-> at, code |-> NoExit]
         ELSE Unwind(Pop(fs), at)
    ELSE IF at = "wait"
         THEN [frames |-> <<>>, pc |-> "loop", code |-> NoExit]
         ELSE [frames |-> <<>>, pc |-> "terminated", code |-> ExitStatus]

\* Line 23: sys.exit(0).
CleanupExit ==
    /\ InCleanup("exit")
    /\ LET r == Unwind(Pop(frames), pc)
       IN  /\ frames' = r.frames
           /\ pc' = r.pc
           /\ exitCode' = r.code
    /\ UNCHANGED <<client, exc, out, calls, regs, cb, escaped, nEvents,
                   sigLog>>

(* ----------------------- the callbacks, lines 47-61 -------------------- *)

\* The client may call a registered callback on an idle delivery thread (the
\* threads are interchangeable: it takes the first idle one).
CanDeliver(t, fn) ==
    /\ pc # "terminated"
    /\ fn \in regs
    /\ cb[t].pc = "idle"
    /\ \A u \in Threads : u < t => cb[u].pc # "idle"
    /\ nEvents < MaxEvents

\* result.text and result.confidence are plain attribute reads (lines
\* 50-51): AttributeError when the result has no such attribute.
Readable(result) == {"text", "confidence"} \subseteq DOMAIN result

\* Lines 48-54: the client calls on_transcription(result); the line is
\* built, or the attribute read raises and the exception leaves the callback.
OnTranscription(t, result) ==
    /\ CanDeliver(t, "on_transcription")
    /\ nEvents' = nEvents + 1
    /\ IF Readable(result)
       THEN /\ cb' = [cb EXCEPT ![t] = [pc |-> "write",
                                        fn |-> "on_transcription",
                                        arg |-> result,
                                        msg |-> TranscriptionMsg(result)]]
            /\ escaped' = escaped
       ELSE /\ escaped' = escaped + 1
            /\ cb' = cb
    /\ UNCHANGED <<pc, frames, client, exc, exitCode, out, calls, regs,
                   sigLog>>

\* A variant of OnError that treats the error as the end of the session and
\* stops the client.
OnErrorStopsClient(t, error) ==
    /\ CanDeliver(t, "on_error")
    /\ nEvents' = nEvents + 1
    /\ cb' = [cb EXCEPT ![t] = [pc |-> "write", fn |-> "on_error",
                                arg |-> error, msg |-> ErrorMsg(error)]]
    /\ calls' = Called("stop_listening", TRUE)
    /\ UNCHANGED <<pc, frames, client, exc, exitCode, out, regs, escaped,
                   sigLog>>

\* Line 59: the client calls on_error(error); the line is built.
OnError(t, error) ==
    /\ CanDeliver(t, "on_error")
    /\ nEvents' = nEvents + 1
    /\ cb' = [cb EXCEPT ![t] = [pc |-> "write", fn |-> "on_error",
                                arg |-> error, msg |-> ErrorMsg(error)]]
    /\ UNCHANGED <<pc, frames, client, exc, exitCode, out, calls, regs,
                   escaped, sigLog>>

\* A line of at most PIPE_BUF bytes reaches the pipe in one piece.
Atomic(m) == ByteLen(m) <= PipeBuf

\* Lines 55 and 60: sys.stdout.write(msg.encode('utf-8')), one write(2) on
\* the raw stream, and flush(), which does nothing on a raw stream.  The
\* kernel takes the whole line at once, or, for a line longer than PIPE_BUF
\* on a full pipe, its first PIPE_BUF bytes now and the rest later.
CallbackWrite(t) ==
    /\ pc # "terminated"
    /\ cb[t].pc = "write"
    /\ \/ /\ out' = Append(out, WholeLine(cb[t].msg))
          /\ cb' = [cb EXCEPT ![t] = [pc |-> "idle"]]
       \/ /\ ~Atomic(cb[t].msg)
          /\ out' = Append(out, Slice(cb[t].msg, 1, PipeBuf))
          /\ cb' = [cb EXCEPT ![t].pc = "rest"]
    /\ UNCHANGED <<pc, frames, client, exc, exitCode, calls, regs, escaped,
                   nEvents, sigLog>>

\* The same write(2) going on after the pipe was drained.
CallbackWriteRest(t) ==
    /\ pc # "terminated"
    /\ cb[t].pc = "rest"
    /\ out' = Append(out, Slice(cb[t].msg, PipeBuf + 1, ByteLen(cb[t].msg)))
    /\ cb' = [cb EXCEPT ![t] = [pc |-> "idle"]]
    /\ UNCHANGED <<pc, frames, client, exc, exitCode, calls, regs, escaped,
                   nEvents, sigLog>>

(* --------------------------- specification ----------------------------- *)

\* The steps of the main thread.
MainStep ==
    \/ Construct
    \/ Connect
    \/ WriteConnected
    \/ RegisterTranscription
    \/ RegisterError
    \/ Subscribe
    \/ StartListening
    \/ WriteListening
    \/ LoopBack
    \/ HandlerWrite
    \/ HandlerCleanup
    \/ CleanupCheck
    \/ CleanupStopListening
    \/ CleanupDisconnect
    \/ CleanupExit

\* The steps of the client's delivery threads.
ClientStep ==
    \/ \E t \in Threads, result \in Results : OnTranscription(t, result)
    \/ \E t \in Threads, error \in Errors : OnError(t, error)
    \/ \E t \in Threads : CallbackWrite(t)
    \/ \E t \in Threads : CallbackWriteRest(t)

Next == MainStep \/ ClientStep \/ Signal

Spec == Init /\ [][Next]_vars

(* ------------------------------ claims --------------------------------- *)

\* The process has terminated with exit code 0.
ExitedZero == pc = "terminated" /\ exitCode = 0

\* A signal found the main thread blocked in select() (line 80).
SignalInWait == \E i \in DOMAIN sigLog : sigLog[i] = "wait"

\* A signal was delivered after the "listening" line was written: its
\* cleanup has begun.
ShutdownBegun == \E i \in DOMAIN sigLog : sigLog[i] \in {"wait", "loop"}

\* The lines of the stream that are the ready line with this status.
ReadyLines(status) ==
    {i \in DOMAIN out : out[i].msg = ReadyMsg(status)}

\* client.connect() raised.
ConnectRaised ==
    \E i \in DOMAIN calls : calls[i] = [op |-> "connect", ok |-> FALSE]

\* C1: once the handler of a signal that was delivered while the process
\* was in the blocking wait has run to its end, the process is terminated
\* with exit code 0: it is not back in the blocking wait.
C1_SignalInWaitTerminates ==
    (SignalInWait /\ frames = <<>>) => ExitedZero

\* C2: once a signal's cleanup has begun after the "listening" line was
\* written, no step appends a transcription line or an error line to the
\* output stream.
C2_NoEventLineAfterShutdown ==
    [][ShutdownBegun =>
          ~(/\ Len(out') > Len(out)
            /\ out'[Len(out')].msg.type \in {"transcription", "error"})]_vars

\* C3 as claimed: if client.connect() raised, the terminated process has
\* written exactly one error line, which carries str() of the exception, no
\* "connected" line and no "listening" line, and its exit code is 0.
C3_ConnectFailureOneErrorLine ==
    (ConnectRaised /\ pc = "terminated") =>
        /\ out = <<WholeLine(ErrorMsg(ExcOf("connect")))>>
        /\ exitCode = 0

\* C3 as amended: if client.connect() raised, the stream never holds a
\* "connected" or a "listening" line nor any line but the error line that
\* carries str() of the exception, and that line at most once; the main
\* thread never blocks, so it runs on to termination; and the terminated
\* process has exit code 0 and has written the error line exactly once,
\* unless a signal was delivered after the exception was caught and before
\* the line was written (then the stream is empty).
C3_ConnectFailureAmended ==
    ConnectRaised =>
        /\ ReadyLines("connected") = {} /\ ReadyLines("listening") = {}
        /\ out \in {<<>>, <<WholeLine(ErrorMsg(ExcOf("connect")))>>}
        /\ pc \notin {"wait", "loop"}
        /\ pc # "terminated" => ENABLED MainStep
        /\ pc = "terminated" =>
              /\ exitCode = 0
              /\ (out = <<>>) <=> (\E i \in DOMAIN sigLog :
                                      sigLog[i] = "h_write")

\* C3's case: connect raised, the error line was written and the process
\* has terminated.
C3_Witness ==
    /\ ConnectRaised
    /\ pc = "terminated"
    /\ out = <<WholeLine(ErrorMsg(ExcOf("connect")))>>

\* The slice is the first PIPE_BUF bytes of a longer line.
IsHead(s) == s.from = 1 /\ s.to < ByteLen(s.msg)

\* Slice s2 is the rest of the line slice s1 begins.
IsRestOf(s2, s1) ==
    /\ IsHead(s1)
    /\ s2.msg = s1.msg
    /\ s2.from = s1.to + 1
    /\ s2.to = ByteLen(s2.msg)

\* C4: the output stream is a concatenation of whole lines (the last one
\* possibly still being written): the bytes of one line are never
\* interleaved with those of another.
C4_WholeLines ==
    \A i \in DOMAIN out :
        \/ IsWhole(out[i])
        \/ IsHead(out[i]) /\ (i = Len(out) \/ IsRestOf(out[i + 1], out[i]))
        \/ i > 1 /\ IsRestOf(out[i], out[i - 1])

\* stop_listening or disconnect raised during a shutdown.
CleanupRaised ==
    \E i \in DOMAIN calls :
        calls[i].op \in {"stop_listening", "disconnect"} /\ ~calls[i].ok

\* C5: when stop_listening or disconnect raised during shutdown and no
\* activation of cleanup() is left running, the process is terminated with
\* exit code 0, from whichever state shutdown was entered.
C5_CleanupFailureStillTerminates ==
    (CleanupRaised /\ frames = <<>>) => ExitedZero

\* The client call has returned without raising.
Returned(op) == \E i \in DOMAIN calls : calls[i] = [op |-> op, ok |-> TRUE]

\* C6: whenever the stream holds a "listening" line, a "connected" line
\* stands earlier in the stream, and connect, subscribe and start_listening
\* have all returned successfully.
C6_ListeningAfterConnected ==
    \A i \in ReadyLines("listening") :
        /\ \E j \in ReadyLines("connected") : j < i
        /\ Returned("connect")
        /\ Returned("subscribe")
        /\ Returned("start_listening")

\* C6's case: the "listening" line has been written.
C6_Witness == ReadyLines("listening") # {}

\* C7: no exception ever leaves the transcription callback or the error
\* callback, whatever event the client delivers.
C7_NoExceptionEscapes == escaped = 0

\* C8: a terminated process has exit code 0, and no other exit code is ever
\* produced, whether shutdown came from a signal or from a failure of the
\* constructor, connect, subscribe or start_listening.
C8_ExitCodeZero ==
    /\ pc = "terminated" => exitCode = 0
    /\ exitCode \in {NoExit, 0}

\* C8's case: the process has terminated after a startup failure, with a
\* signal delivered on the way.
C8_Witness == pc = "terminated" /\ exc # "" /\ sigLog # <<>>

\* Delivery thread t completes, in this step, the write of the line of the
\* callback fn.
Emits(t, fn) ==
    /\ cb[t].pc = "write"
    /\ cb[t].fn = fn
    /\ cb'[t].pc # "write"

\* C9: the line the transcription callback emits for a result has type
\* "transcription", the result's text and confidence unchanged, the
\* result's language if it has one and "en" otherwise, and the result's
\* is_final if it has one and true otherwise.
C9_TranscriptionFields ==
    [][\A t \in Threads :
          Emits(t, "on_transcription") =>
              LET m == out'[Len(out')].msg
                  r == cb[t].arg
              IN  /\ Len(out') = Len(out) + 1
                  /\ m.type = "transcription"
                  /\ m.text = r.text
                  /\ m.confidence = r.confidence
                  /\ m.language = (IF "language" \in DOMAIN r
                                   THEN r.language ELSE "en")
                  /\ m.is_final = (IF "is_final" \in DOMAIN r
                                   THEN r.is_final ELSE TRUE)]_vars

\* C9's case: the stream holds a line with the default language and one
\* with the default is_final, each beside a field taken from the result.
C9_Witness ==
    /\ \E i \in DOMAIN out :
          /\ out[i].msg.type = "transcription"
          /\ out[i].msg.language = "en"
          /\ ~out[i].msg.is_final
    /\ \E i \in DOMAIN out :
          /\ out[i].msg.type = "transcription"
          /\ out[i].msg.language = "sv"
          /\ out[i].msg.is_final

\* The process is in the Listening state: in the loop of lines 77-82, no
\* cleanup running.
Listening == pc \in {"wait", "loop"} /\ frames = <<>>

\* C10: while the process is listening, a call of the error callback writes
\* exactly one error line (carrying str() of the error) and changes nothing
\* else: the process stays Listening, no client operation is invoked, the
\* process does not terminate.
C10_ErrorCallbackFrame ==
    [][Listening =>
          \A t \in Threads :
              /\ (cb[t].pc = "idle" /\ cb'[t].pc = "write"
                                    /\ cb'[t].fn = "on_error") =>
                    UNCHANGED <<pc, frames, client, exitCode, calls, regs,
                                out>>
              /\ Emits(t, "on_error") =>
                    /\ out' = Append(out, WholeLine([type |-> "error",
                                                     error |-> cb[t].arg]))
                    /\ cb'[t].pc = "idle"
                    /\ UNCHANGED <<pc, frames, client, exitCode, calls,
                                   regs>>]_vars

\* C10's case: the error callback has written its line and the process is
\* still listening.
C10_Witness ==
    /\ Listening
    /\ \E i \in DOMAIN out : out[i].msg = ErrorMsg("stream timeout")

\* No shutdown has begun: no signal was delivered and cleanup() of line 88
\* has not been called.
NoShutdown == sigLog = <<>> /\ frames = <<>> /\ pc # "terminated"

\* The line is one a callback writes, not one main() writes.
IsEventMsg(m) ==
    \/ m.type = "transcription"
    \/ m.type = "error" /\ m.error \in Errors

\* The places of the stream where a complete line of a callback begins: a
\* whole line, or the head of a line that its own rest follows at once.
EventLines ==
    {i \in DOMAIN out :
        /\ IsEventMsg(out[i].msg)
        /\ \/ IsWhole(out[i])
           \/ i < Len(out) /\ IsRestOf(out[i + 1], out[i])}

\* C11: when every callback the client has called before any shutdown began
\* has returned, the stream holds exactly one line for each event delivered:
\* none is lost, none is duplicated.
C11_OneLinePerEvent ==
    (NoShutdown /\ \A t \in Threads : cb[t].pc = "idle") =>
        Cardinality(EventLines) = nEvents

\* The error lines main() writes when subscribe or start_listening raised.
StartupFailureMsgs ==
    {ErrorMsg(ExcOf("subscribe")), ErrorMsg(ExcOf("start_listening"))}

\* C12: once subscribe or start_listening has raised and main() has written
\* the error line for it, that line stays the last of the stream: nothing of
\* any type is written after it, and no "listening" line is in the stream.
C12_FailureLineIsLast ==
    \A i \in DOMAIN out :
        out[i].msg \in StartupFailureMsgs =>
            /\ i = Len(out)
            /\ ReadyLines("listening") = {}

\* The number of calls of the client method made so far.
CallCount(op) == Cardinality({i \in DOMAIN calls : calls[i].op = op})

\* C13: a process that has exited while a client handle existed has invoked
\* disconnect on it, also when stop_listening raised.
C13_DisconnectBeforeExit ==
    (pc = "terminated" /\ client # "None") => CallCount("disconnect") > 0

\* The places in the sequence of client calls where op was called.
CallsOf(op) == {i \in DOMAIN calls : calls[i].op = op}

\* The two registration calls.
Registrations == CallsOf("on_transcription") \cup CallsOf("on_error")

\* C14: each callback registration follows the return of connect and
\* precedes the call of subscribe, subscribe precedes start_listening, the
\* client knows exactly the callbacks registered by such a call, and when
\* the process is in the blocking wait all four calls have been made: none
\* is made once it waits.
C14_RegistrationOrder ==
    /\ \A i \in Registrations :
          /\ \E j \in CallsOf("connect") : j < i /\ calls[j].ok
          /\ \A k \in CallsOf("subscribe") \cup CallsOf("start_listening") :
                i < k
    /\ \A k \in CallsOf("start_listening") :
          \E j \in CallsOf("subscribe") : j < k /\ calls[j].ok
    /\ \A fn \in {"on_transcription", "on_error"} :
          /\ fn \in regs <=> CallsOf(fn) # {}
          /\ CallCount(fn) <= 1
          /\ CallsOf("subscribe") # {} => CallsOf(fn) # {}
    /\ pc \in {"wait", "loop"} =>
          /\ regs = {"on_transcription", "on_error"}
          /\ Returned("subscribe") /\ Returned("start_listening")

\* C14's case: the process is in the blocking wait with both callbacks
\* registered.
C14_Witness == pc = "wait" /\ regs = {"on_transcription", "on_error"}

\* C15: over the lifetime of the process, stop_listening and disconnect are
\* each invoked at most once on the client, whatever signals are delivered.
C15_CleanupCallsAtMostOnce ==
    CallCount("stop_listening") <= 1 /\ CallCount("disconnect") <= 1

\* The places of main() in the startup sequence, lines 38-73.
StartupPlaces ==
    {"construct", "connect", "w_connected", "reg_transcription",
     "reg_error", "subscribe", "start_listening", "w_listening"}

\* A signal was delivered during the startup sequence.
StartupSignal == \E i \in DOMAIN sigLog : sigLog[i] \in StartupPlaces

\* C16: after a signal delivered during the startup sequence, main() writes
\* nothing more: no "listening" line is ever in the stream and the handler's
\* exit is not reported as a startup failure (the except clause of line 84
\* is not entered, every error line of the stream is an error callback's);
\* the main thread never blocks, and when the handler has run the process
\* is terminated with exit code 0.
C16_StartupSignalExits ==
    StartupSignal =>
        /\ ReadyLines("listening") = {}
        /\ exc = ""
        /\ pc \notin {"h_write", "h_cleanup", "wait", "loop"}
        /\ \A i \in DOMAIN out :
              out[i].msg.type = "error" => out[i].msg.error \in Errors
        /\ pc # "terminated" => ENABLED MainStep
        /\ frames = <<>> => ExitedZero

\* C16's case: a signal arrived while start_listening was about to run,
\* both callbacks being registered, and the process has terminated.
C16_Witness ==
    /\ \E i \in DOMAIN sigLog : sigLog[i] = "start_listening"
    /\ regs = {"on_transcription", "on_error"}
    /\ ExitedZero

\* The slices of the stream that belong to transcription lines.
TranscriptionLines ==
    {i \in DOMAIN out : out[i].msg.type = "transcription"}

\* C17: every transcription line of the stream is preceded by the
\* "connected" ready line.
C17_TranscriptionAfterConnected ==
    \A i \in TranscriptionLines :
        \E j \in ReadyLines("connected") : j < i

\* C17's case: a transcription line and an error callback's line stand in
\* the stream after the "connected" line and before the "listening" line.
C17_Witness ==
    \E k \in ReadyLines("listening") :
        /\ \E i \in TranscriptionLines : i < k
        /\ \E i \in DOMAIN out : i < k /\ out[i].msg = ErrorMsg("stream timeout")

\* RTSTTClient() raised: main()'s except clause caught its exception.
ConstructorRaised == exc = ExcOf("RTSTTClient")

\* C18 as claimed: while no client handle exists no client operation has
\* been invoked, in particular neither stop_listening nor disconnect; the
\* process that terminates without one has exit code 0, and when the
\* constructor raised it has written exactly one error line.
C18_NoClientNoCalls ==
    client = "None" =>
        /\ calls = <<>>
        /\ pc = "terminated" =>
              /\ exitCode = 0
              /\ ConstructorRaised =>
                    out = <<WholeLine(ErrorMsg(ExcOf("RTSTTClient")))>>

\* C18 as amended: while no client handle exists no client operation has
\* been invoked and the stream holds nothing but, at most once, the error
\* line of the constructor's exception; the process that terminates without
\* a handle has exit code 0; when the constructor raised it has written
\* that error line exactly once, unless a signal was delivered after the
\* exception was caught and before the line was written (then, as when a
\* signal arrives before the client is constructed, the stream is empty).
C18_NoClientNoCallsAmended ==
    client = "None" =>
        /\ calls = <<>>
        /\ out \in {<<>>, <<WholeLine(ErrorMsg(ExcOf("RTSTTClient")))>>}
        /\ out # <<>> => ConstructorRaised
        /\ pc = "terminated" =>
              /\ exitCode = 0
              /\ (out = <<>>) <=> (\/ ~ConstructorRaised
                                   \/ \E i \in DOMAIN sigLog :
                                         sigLog[i] = "h_write")

\* C18's case: the constructor raised, the error line was written, and the
\* process has run cleanup() and terminated without a client handle.
C18_Witness ==
    /\ client = "None"
    /\ ConstructorRaised
    /\ pc = "terminated"
    /\ out = <<WholeLine(ErrorMsg(ExcOf("RTSTTClient")))>>

====
